---- MODULE Spec2Model ----
(***************************************************************************)
(* Daily Task Tracker server (server/index.js): the persisted document     *)
(* data/tasks.json, the daily rollover checkDailyReset and the Express     *)
(* route handlers that read and write the document.                        *)
(*                                                                         *)
(* Every handler is synchronous (readFileSync / writeFileSync), so Node's  *)
(* event loop runs each one to completion: one action per handler.  A      *)
(* handler takes one reading of the wall clock.  Every call of readTasks   *)
(* and writeTasks may fail; the failure is an input of the action.         *)
(***************************************************************************)
EXTENDS Integers, Sequences, FiniteSets, TLC

VARIABLES
    file,   \* the document stored in data/tasks.json
    now,    \* the wall clock, Date.now()
    op,     \* what the last handler did (name, I/O outcomes, status)
    mem,    \* the document the last checkDailyReset built and tried to save
    created,\* the number of tasks created so far
    req,    \* the request the last handler served, where requests are recorded
    inflight,\* the requests the server has accepted, where arrivals are modelled
    client  \* the App component in a browser, where the client is modelled

vars == <<file, now, op, mem, created, req, inflight, client>>

----------------------------------------------------------------------------
(* Bounds of the model *)

MaxNow == 4          \* the last clock reading
MaxCreates == 2      \* the number of tasks created in a run
MaxReqTasks == 2     \* the number of tasks of a stored document (RequestSpec)
MaxRequests == 1     \* the number of requests served in a recorded run
MaxStatsTasks == 40  \* the number of tasks of a stored document (StatsSpec)
MaxArrivals == 2     \* the number of requests received in a run (ConcurrentSpec)

----------------------------------------------------------------------------
(* JavaScript values *)

Null == -1                      \* completedAt: null
Undefined == <<"undefined">>    \* a field absent from req.body
Space == " "
EmptyString == -2               \* lastReset of the client before it loaded: ""

\* String.prototype.trim on a string held as a sequence of characters
RECURSIVE TrimStart(_)
TrimStart(s) ==
    IF s = <<>> \/ Head(s) # Space THEN s ELSE TrimStart(Tail(s))

RECURSIVE TrimEnd(_)
TrimEnd(s) ==
    IF s = <<>> \/ s[Len(s)] # Space THEN s ELSE TrimEnd(SubSeq(s, 1, Len(s) - 1))

Trim(s) == TrimEnd(TrimStart(s))

\* new Date().toISOString().split("T")[0]: the calendar date of a clock
\* reading, with two clock readings to the day
DateOf(t) == t \div 2

Today == DateOf(now)

\* Date.now().toString()
NewId(t) == ToString(t)

----------------------------------------------------------------------------
(* Store *)

\* slip: the fallback document carries no date
UndatedData(today) == [tasks |-> <<>>, lastReset |-> Null, history |-> <<>>]

\* the document written when the data file does not exist, and the one
\* readTasks falls back to
InitialData(today) == [tasks |-> <<>>, lastReset |-> today, history |-> <<>>]

\* readTasks: the parsed file, or the fresh document when reading throws
readTasks(f, ok, today) == IF ok THEN f ELSE InitialData(today)

\* slip: the file replaced although the write is reported as failed
WroteAnyway(f, data, ok) == data

\* writeTasks: the file after writing `data`; a failed write leaves it as it was
writeTasks(f, data, ok) == IF ok THEN data ELSE f

NoDoc == [tasks |-> <<>>, lastReset |-> Null, history |-> <<>>]

----------------------------------------------------------------------------
(* Rollover engine: checkDailyReset *)

Indices(s) == 1..Len(s)

\* the positions of the completed tasks, ascending: Array.filter keeps order
RECURSIVE FilterCompleted(_, _)
FilterCompleted(tasks, i) ==
    IF i > Len(tasks) THEN <<>>
    ELSE (IF tasks[i].completed THEN <<i>> ELSE <<>>) \o FilterCompleted(tasks, i + 1)

\* slip: a reset also when the stored date is today's
NotAfterToday(data, today) == data.lastReset <= today

\* slip: the date test left out
AlwaysReset(data, today) == TRUE

NeedsReset(data, today) == data.lastReset # today

\* slip: an entry for every non-empty task list
ArchiveAnyList(tasks, refs) == Len(tasks) > 0

ShouldArchive(tasks, refs) == Len(tasks) > 0 /\ Len(refs) > 0

\* slip: the flag cleared, the timestamp kept
ResetFlagOnly(t) == [t EXCEPT !.completed = FALSE]

\* task.completed = false; task.completedAt = null
ResetTask(t) == [t EXCEPT !.completed = FALSE, !.completedAt = Null]

\* slip: the task list cleared at the reset
ClearAll(tasks) == <<>>

ResetAll(tasks) == [i \in Indices(tasks) |-> ResetTask(tasks[i])]

\* slip: the entry dated with the day of the reset
EntryDateToday(data, today) == today

EntryDate(data, today) == data.lastReset

\* slip: lastReset not advanced
KeepLastReset(data, today) == data.lastReset

NextLastReset(data, today) == today

\* The history entry as it is serialised.  completedTasks (line 77) holds the
\* very task objects of data.tasks, which the forEach of lines 90-93 mutates
\* before writeTasks serialises the document: the entry shows them as they
\* are after the loop.
HistoryEntry(data, refs, tasksAfter, today) ==
    [date           |-> EntryDate(data, today),
     completedTasks |-> [k \in Indices(refs) |-> tasksAfter[refs[k]]],
     totalTasks     |-> Len(data.tasks),
     completedCount |-> Len(refs)]

\* `data` at the return of checkDailyReset when a reset is performed
Rollover(data, today) ==
    LET refs       == FilterCompleted(data.tasks, 1)
        tasksAfter == ResetAll(data.tasks)
    IN  [tasks     |-> tasksAfter,
         lastReset |-> NextLastReset(data, today),
         history   |-> IF ShouldArchive(data.tasks, refs)
                       THEN Append(data.history,
                                   HistoryEntry(data, refs, tasksAfter, today))
                       ELSE data.history]

\* checkDailyReset as a function of the file and of its two I/O outcomes:
\* the file afterwards, the returned flag, the object `data` and the write
CheckResult(f, today, rd, wr) ==
    LET data == readTasks(f, rd, today)
    IN  IF NeedsReset(data, today)
        THEN [file  |-> writeTasks(f, Rollover(data, today), wr),
              reset |-> TRUE,
              data  |-> Rollover(data, today),
              write |-> IF wr THEN "ok" ELSE "failed"]
        ELSE [file  |-> f,
              reset |-> FALSE,
              data  |-> data,
              write |-> "none"]

----------------------------------------------------------------------------
(* What a handler leaves behind for the properties *)

OpRecord(name, today, rd1, reset, wr1, status, stale) ==
    [name   |-> name,      \* the handler
     today  |-> today,     \* the date it read from the clock
     again  |-> /\ name \in {"startup", "list"}
                /\ op.name \in {"startup", "list"}
                /\ op.reset /\ op.wr1 = "ok" /\ op.today = today,
                           \* it ran the rollover check on the date on which
                           \* the handler before it performed and saved one
     rd1    |-> rd1,       \* checkDailyReset: readTasks succeeded
     reset  |-> reset,     \* checkDailyReset returned true
     wr1    |-> wr1,       \* checkDailyReset: "none", "ok" or "failed" write
     status |-> status,    \* HTTP status of the response (0: no response)
     stale  |-> stale]     \* it worked on completions of an earlier day

\* the document a handler works on carries completions of a day before today
StaleDoc(data, today) ==
    /\ data.lastReset # today
    /\ \E i \in Indices(data.tasks) :
          data.tasks[i].completed /\ DateOf(data.tasks[i].completedAt) # today

\* the document checkDailyReset built and tried to save, if it built one
Built(r) == IF r.reset THEN r.data ELSE NoDoc

----------------------------------------------------------------------------
(* Request inputs *)

Absent == "undefined"           \* priority absent from req.body
MissingId == "x"                \* an id no task has

CreateBodies ==
    { [title |-> <<Space, "a">>, description |-> Undefined,      priority |-> Absent],
      [title |-> <<Space>>,      description |-> Undefined,      priority |-> Absent],
      [title |-> Undefined,      description |-> Undefined,      priority |-> Absent] }

UpdateBodies ==
    { [hasCompleted |-> c[1], completed |-> c[2],
       title |-> Undefined, description |-> Undefined, priority |-> Absent] :
         c \in {<<TRUE, TRUE>>, <<TRUE, FALSE>>, <<FALSE, FALSE>>} }

IdsOf(tasks) == {tasks[i].id : i \in Indices(tasks)}

\* !title: undefined and the empty string are falsy
Falsy(s) == s = Undefined \/ s = <<>>

\* no request recorded
\* no App component is mounted: lastReset and captured are the lastReset of
\* the component's state and of the closure its interval timer calls
NoClient ==
    [mounted |-> FALSE, fetching |-> FALSE, lastReset |-> EmptyString,
     captured |-> EmptyString, reloads |-> 0]

NoReq == [n |-> 0, id |-> "", body |-> <<>>, rd |-> "none", wr |-> "none"]

\* the request a handler served: the id of the URL (for POST the id given to
\* the new task), req.body (for GET /api/stats the response), and the
\* outcomes of the handler's own readTasks and writeTasks ("none", "ok" or
\* "failed").  Requests are recorded, and counted up to `rec`, in the runs
\* with rec > 0; rec = 0 where they are not recorded.
Recorded(rec, id, body, rd, wr) ==
    IF rec > 0
    THEN [n |-> IF req.n < rec THEN req.n + 1 ELSE req.n,
          id |-> id, body |-> body, rd |-> rd, wr |-> wr]
    ELSE req

IoResult(failed) == IF failed THEN "failed" ELSE "ok"

\* a recorded run serves `rec` requests
Admitted(rec) == rec > 0 => req.n < rec

----------------------------------------------------------------------------
(* Initial state: the data file was just created by lines 28-35, on the    *)
(* last clock reading of day 0                                             *)

Init ==
    /\ now = 1
    /\ file = InitialData(DateOf(1))
    /\ op = [name |-> "init", today |-> DateOf(1), again |-> FALSE, rd1 |-> FALSE,
             reset |-> FALSE, wr1 |-> "none", status |-> 0, stale |-> FALSE]
    /\ mem = NoDoc
    /\ created = 0
    /\ req = NoReq
    /\ inflight = <<>>
    /\ client = NoClient

\* Each call of readTasks and of writeTasks in a handler may fail: rf, wf
\* (and rf1, wf1, rf2, wf2 in the order of the calls) say which calls do.

\* whether the write of checkDailyReset can fail: only where it is reached
WriteFailures(f, today, rd) ==
    IF NeedsReset(readTasks(f, rd, today), today) THEN BOOLEAN ELSE {FALSE}

\* the wall clock advances; it is never set back
Tick ==
    /\ now < MaxNow
    /\ now' = now + 1
    /\ UNCHANGED <<file, op, mem, created, req, inflight, client>>

\* app.listen callback: the rollover check made when the server (re)starts
Startup ==
    \E rf \in BOOLEAN : \E wf \in WriteFailures(file, Today, ~rf) :
        LET r == CheckResult(file, Today, ~rf, ~wf)
        IN  /\ file' = r.file
            /\ mem' = Built(r)
            /\ op' = OpRecord("startup", Today, ~rf, r.reset, r.write, 0, FALSE)
            /\ UNCHANGED <<now, created, req, inflight, client>>

\* GET /api/tasks; a recorded request keeps the response
GetTasks(rec) ==
    \E rf1 \in BOOLEAN, rf2 \in BOOLEAN : \E wf1 \in WriteFailures(file, Today, ~rf1) :
        LET r    == CheckResult(file, Today, ~rf1, ~wf1)
            data == readTasks(r.file, ~rf2, Today)
        IN  /\ file' = r.file
            /\ mem' = Built(r)
            /\ op' = OpRecord("list", Today, ~rf1, r.reset, r.write,
                              200, StaleDoc(data, Today))
            /\ req' = Recorded(rec, "",
                               [tasks |-> data.tasks, lastReset |-> data.lastReset,
                                today |-> Today],
                               IoResult(rf2), "none")
            /\ UNCHANGED <<now, created>>

ListTasks == GetTasks(0) /\ UNCHANGED <<inflight, client>>

\* the task built by POST /api/tasks, lines 133-141
NewTask(body, t) ==
    [id          |-> NewId(t),
     title       |-> Trim(body.title),
     description |-> IF Falsy(body.description) THEN <<>> ELSE Trim(body.description),
     priority    |-> IF body.priority = Absent THEN "medium" ELSE body.priority,
     completed   |-> FALSE,
     createdAt   |-> t,
     completedAt |-> Null]

\* slip: only a missing or empty title refused
MissingTitle(title) == Falsy(title)

\* line 124: !title || title.trim() === ""
InvalidTitle(title) == Falsy(title) \/ Trim(title) = <<>>

\* POST /api/tasks, for the bodies of `bodies` and at most `budget` tasks
PostTask(bodies, budget, rec) ==
    \E body \in bodies :
        IF InvalidTitle(body.title)
        THEN /\ Admitted(rec)
             /\ op' = OpRecord("create", Today, FALSE, FALSE, "none", 400, FALSE)
             /\ mem' = NoDoc
             /\ req' = Recorded(rec, "", body, "none", "none")
             /\ UNCHANGED <<file, now, created>>
        ELSE \E rf1 \in BOOLEAN, rf2 \in BOOLEAN, wf2 \in BOOLEAN :
             \E wf1 \in WriteFailures(file, Today, ~rf1) :
             LET r     == CheckResult(file, Today, ~rf1, ~wf1)
                 data  == readTasks(r.file, ~rf2, Today)
                 data2 == [data EXCEPT !.tasks = Append(@, NewTask(body, now))]
             IN  /\ Admitted(rec)
                 /\ created < budget
                 /\ created' = created + 1
                 /\ file' = writeTasks(r.file, data2, ~wf2)
                 /\ mem' = Built(r)
                 /\ op' = OpRecord("create", Today, ~rf1, r.reset, r.write,
                                   IF wf2 THEN 500 ELSE 201,
                                   StaleDoc(data, Today))
                 /\ req' = Recorded(rec, NewId(now), body,
                                    IoResult(rf2), IoResult(wf2))
                 /\ UNCHANGED now

CreateTask == PostTask(CreateBodies, MaxCreates, 0) /\ UNCHANGED <<inflight, client>>

\* data.tasks.findIndex((task) => task.id === id); 0 stands for -1
RECURSIVE FindIndexFrom(_, _, _)
FindIndexFrom(tasks, id, i) ==
    IF i > Len(tasks) THEN 0
    ELSE IF tasks[i].id = id THEN i
    ELSE FindIndexFrom(tasks, id, i + 1)

\* slip: the first task taken when no id matches
FirstIndex(tasks, id) ==
    IF FindIndexFrom(tasks, id, 1) # 0 THEN FindIndexFrom(tasks, id, 1)
    ELSE IF Len(tasks) > 0 THEN 1 ELSE 0

findIndex(tasks, id) == FindIndexFrom(tasks, id, 1)

\* slip: the task rebuilt from the body, absent fields at their defaults
ReplaceFields(t, body, at) ==
    [t EXCEPT
        !.completed   = body.hasCompleted /\ body.completed,
        !.completedAt = IF body.hasCompleted /\ body.completed THEN at ELSE Null,
        !.title       = IF body.title # Undefined THEN Trim(body.title) ELSE <<>>,
        !.description = IF body.description # Undefined
                        THEN Trim(body.description) ELSE <<>>,
        !.priority    = IF body.priority # Absent THEN body.priority ELSE "medium"]

\* lines 165-182: the fields present in the body are applied to the task
ApplyUpdate(t, body, at) ==
    [t EXCEPT
        !.completed   = IF body.hasCompleted THEN body.completed ELSE @,
        !.completedAt = IF body.hasCompleted
                        THEN (IF body.completed THEN at ELSE Null) ELSE @,
        !.title       = IF body.title # Undefined THEN Trim(body.title) ELSE @,
        !.description = IF body.description # Undefined
                        THEN Trim(body.description) ELSE @,
        !.priority    = IF body.priority # Absent THEN body.priority ELSE @]

\* PUT /api/tasks/:id, for the bodies of `bodies`
PutTask(bodies, rec) ==
    \E rf \in BOOLEAN : \E id \in IdsOf(readTasks(file, ~rf, Today).tasks) \cup {MissingId} :
        LET data == readTasks(file, ~rf, Today)
            i    == findIndex(data.tasks, id)
        IN  /\ Admitted(rec)
            /\ mem' = NoDoc
            /\ UNCHANGED <<now, created>>
            /\ IF i = 0
               THEN /\ op' = OpRecord("update", Today, FALSE, FALSE, "none", 404, FALSE)
                    /\ req' = Recorded(rec, id, <<>>, IoResult(rf), "none")
                    /\ UNCHANGED file
               ELSE \E body \in bodies, wf \in BOOLEAN :
                    LET data2 == [data EXCEPT !.tasks[i] = ApplyUpdate(@, body, now)]
                    IN  /\ file' = writeTasks(file, data2, ~wf)
                        /\ op' = OpRecord("update", Today, FALSE, FALSE, "none",
                                          IF wf THEN 500 ELSE 200,
                                          StaleDoc(data, Today))
                        /\ req' = Recorded(rec, id, body,
                                           IoResult(rf), IoResult(wf))

UpdateTask == PutTask(UpdateBodies, 0) /\ UNCHANGED <<inflight, client>>

\* slip: splice(taskIndex) without a count removes the rest of the list
SpliceToEnd(tasks, i) == SubSeq(tasks, 1, i - 1)

\* data.tasks.splice(taskIndex, 1)
Splice(tasks, i) == SubSeq(tasks, 1, i - 1) \o SubSeq(tasks, i + 1, Len(tasks))

\* DELETE /api/tasks/:id
DeleteById(rec) ==
    \E rf \in BOOLEAN : \E id \in IdsOf(readTasks(file, ~rf, Today).tasks) \cup {MissingId} :
        LET data == readTasks(file, ~rf, Today)
            i    == findIndex(data.tasks, id)
        IN  /\ Admitted(rec)
            /\ mem' = NoDoc
            /\ UNCHANGED <<now, created>>
            /\ IF i = 0
               THEN /\ op' = OpRecord("delete", Today, FALSE, FALSE, "none", 404, FALSE)
                    /\ req' = Recorded(rec, id, <<>>, IoResult(rf), "none")
                    /\ UNCHANGED file
               ELSE \E wf \in BOOLEAN :
                    LET data2 == [data EXCEPT !.tasks = Splice(@, i)]
                    IN  /\ file' = writeTasks(file, data2, ~wf)
                        /\ op' = OpRecord("delete", Today, FALSE, FALSE, "none",
                                          IF wf THEN 500 ELSE 200,
                                          StaleDoc(data, Today))
                        /\ req' = Recorded(rec, id, <<>>,
                                           IoResult(rf), IoResult(wf))

DeleteTask == DeleteById(0) /\ UNCHANGED <<inflight, client>>

\* GET /api/history: answers with the history it reads, changes nothing
GetHistory ==
    /\ op' = OpRecord("history", Today, FALSE, FALSE, "none", 200, FALSE)
    /\ mem' = NoDoc
    /\ UNCHANGED <<file, now, created, req, inflight, client>>

----------------------------------------------------------------------------
(* JavaScript numbers: the IEEE 754 doubles of lines 225-226.  A positive  *)
(* double is held as [m, e], the integer m times 2^(-e).  m is a sequence  *)
(* of limbs, the most significant first: the leading limb holds the bits   *)
(* above the lowest 52, each of the four limbs after it holds 13 bits.     *)

MantissaBits == 53     \* the significand of a double

LowLimbs == 4          \* the limbs after the leading one

LimbBits == (MantissaBits - 1) \div LowLimbs

RECURSIVE Pow2(_)
Pow2(k) == IF k = 0 THEN 1 ELSE 2 * Pow2(k - 1)

Base == Pow2(LimbBits)

\* the number of bits of n > 0
RECURSIVE BitLen(_)
BitLen(n) == IF n = 0 THEN 0 ELSE 1 + BitLen(n \div 2)

\* l * f + a on limbs, from limb i up, with the carry into limb i and the
\* limbs of the result found so far; the leading limb takes the last carry
RECURSIVE MulAddFrom(_, _, _, _, _)
MulAddFrom(l, f, i, carry, acc) ==
    IF i = 1 THEN <<l[1] * f + carry>> \o acc
    ELSE MulAddFrom(l, f, i - 1, (l[i] * f + carry) \div Base,
                    <<(l[i] * f + carry) % Base>> \o acc)

MulAdd(l, f, a) == MulAddFrom(l, f, Len(l), a, <<>>)

\* long division: the limbs `acc` followed by the next n limbs of r / t, for
\* 0 <= r < t, and the remainder left
RECURSIVE DivLimbs(_, _, _, _)
DivLimbs(r, t, n, acc) ==
    IF n = 0 THEN [limbs |-> acc, rem |-> r]
    ELSE DivLimbs((r * Base) % t, t, n - 1, Append(acc, (r * Base) \div t))

\* the least k with c * 2^k >= t, for c > 0
RECURSIVE LeadShift(_, _)
LeadShift(c, t) == IF c >= t THEN 0 ELSE 1 + LeadShift(2 * c, t)

\* c / t for integers 0 < c <= t: the quotient rounded to the nearest double,
\* a tie going to the even significand.  c * 2^k / t lies in [1, 2): its 53
\* leading bits are kept.
Divide(c, t) ==
    LET k  == LeadShift(c, t)
        q  == DivLimbs(c * Pow2(k) - t, t, LowLimbs, <<1>>)
        up == 2 * q.rem > t \/ (2 * q.rem = t /\ q.limbs[Len(q.limbs)] % 2 = 1)
    IN  [m |-> IF up THEN MulAdd(q.limbs, 1, 1) ELSE q.limbs,
         e |-> k + MantissaBits - 1]

\* x * 100: the exact product rounded to the nearest double, a tie going to
\* the even significand.  The product has d bits more than a significand
\* holds; they are the lowest d bits of its last limb and are rounded away.
Times100(x) ==
    LET p    == MulAdd(x.m, 100, 0)
        d    == BitLen(p[1]) - 1
        low  == p[Len(p)]
        kept == low \div Pow2(d)
        rest == low % Pow2(d)
        up   == 2 * rest > Pow2(d) \/ (2 * rest = Pow2(d) /\ kept % 2 = 1)
        r    == [p EXCEPT ![Len(p)] = (kept + (IF up THEN 1 ELSE 0)) * Pow2(d)]
    IN  [m |-> MulAdd(r, 1, 0), e |-> x.e]

\* Math.round(x), for x with at least 52 fraction bits: the nearest integer,
\* a tie going up
MathRound(x) ==
    LET k   == x.e - LowLimbs * LimbBits
        top == x.m[1]
    IN  IF k = 0
        THEN top + (IF 2 * x.m[2] >= Base THEN 1 ELSE 0)
        ELSE (top \div Pow2(k)) + ((top \div Pow2(k - 1)) % 2)

\* lines 225-226: totalTasks > 0 ? Math.round((completedTasks / totalTasks) * 100) : 0
CompletionRate(c, t) ==
    IF t > 0
    THEN (IF c = 0 THEN 0 ELSE MathRound(Times100(Divide(c, t))))
    ELSE 0

\* the response of GET /api/stats, lines 220-234
Stats(data) ==
    LET totalTasks     == Len(data.tasks)
        completedTasks == Len(FilterCompleted(data.tasks, 1))
    IN  [today          |-> data.lastReset,
         totalTasks     |-> totalTasks,
         completedTasks |-> completedTasks,
         pendingTasks   |-> totalTasks - completedTasks,
         completionRate |-> CompletionRate(completedTasks, totalTasks)]

\* GET /api/stats; a recorded request keeps the response
StatsOf(rec) ==
    \E rf \in BOOLEAN :
        LET data == readTasks(file, ~rf, Today)
        IN  /\ Admitted(rec)
            /\ op' = OpRecord("stats", Today, FALSE, FALSE, "none",
                              200, StaleDoc(data, Today))
            /\ mem' = NoDoc
            /\ req' = Recorded(rec, "", Stats(data), IoResult(rf), "none")
            /\ UNCHANGED <<file, now, created>>

GetStats == StatsOf(0) /\ UNCHANGED <<inflight, client>>

Next ==
    \/ CreateTask
    \/ UpdateTask
    \/ DeleteTask
    \/ GetStats
    \/ GetHistory
    \/ ListTasks
    \/ Startup
    \/ Tick

Spec == Init /\ [][Next]_vars

TypeOK ==
    /\ now \in 1..MaxNow
    /\ file.lastReset \in 0..DateOf(MaxNow)
    /\ Len(file.tasks) <= MaxCreates
    /\ created \in 0..MaxCreates

----------------------------------------------------------------------------
(* One request against a stored document.  RequestSpec starts from the     *)
(* documents the server can hold on day 0 or on the morning of day 1,      *)
(* before any rollover was saved, serves POST, PUT and DELETE requests     *)
(* with every kind of title and subset of fields, and records each request.*)

\* POST bodies: a title to be trimmed, a blank one, an empty one, none
RequestCreateBodies ==
    { [title |-> t, description |-> Undefined, priority |-> Absent] :
        t \in {<<Space, "a">>, <<Space>>, <<>>, Undefined} }

UpdateBody(hc, c, t, d, p) ==
    [hasCompleted |-> hc, completed |-> c, title |-> t, description |-> d,
     priority |-> p]

\* PUT bodies: each field alone, none, and all of them
RequestUpdateBodies ==
    { UpdateBody(TRUE,  TRUE,  Undefined,      Undefined,      Absent),
      UpdateBody(TRUE,  FALSE, Undefined,      Undefined,      Absent),
      UpdateBody(FALSE, FALSE, <<Space>>,      Undefined,      Absent),
      UpdateBody(FALSE, FALSE, <<"b", Space>>, Undefined,      Absent),
      UpdateBody(FALSE, FALSE, Undefined,      <<Space, "d">>, Absent),
      UpdateBody(FALSE, FALSE, Undefined,      Undefined,      "high"),
      UpdateBody(FALSE, FALSE, Undefined,      Undefined,      Absent),
      UpdateBody(TRUE,  TRUE,  <<"b", Space>>, <<Space, "d">>, "high") }

\* the clock readings of day 0, on which the stored tasks were created
CreationTimes == {t \in 0..1 : DateOf(t) = 0}

\* a task created by POST {title: " a"} at time c and, if k is a time,
\* completed by PUT {completed: true} at time k
StoredTask(c, k) ==
    [NewTask([title |-> <<Space, "a">>, description |-> Undefined,
              priority |-> Absent], c)
        EXCEPT !.completed = (k # Null), !.completedAt = k]

StoredTasks ==
    {StoredTask(c, k) : c \in CreationTimes, k \in {Null, 1}}

\* task lists in creation order: POST appends
StoredLists(n) ==
    {l \in [1..n -> StoredTasks] :
        \A i, j \in 1..n : i < j => l[i].createdAt <= l[j].createdAt}

RequestInit ==
    /\ now \in {1, 2}
    /\ file \in {[tasks |-> l, lastReset |-> 0, history |-> <<>>] :
                    l \in UNION {StoredLists(n) : n \in 0..MaxReqTasks}}
    /\ op = [name |-> "init", today |-> 0, again |-> FALSE, rd1 |-> FALSE,
             reset |-> FALSE, wr1 |-> "none", status |-> 0, stale |-> FALSE]
    /\ mem = NoDoc
    /\ created = Len(file.tasks)
    /\ req = NoReq
    /\ inflight = <<>>
    /\ client = NoClient

CreateRequest ==
    /\ PostTask(RequestCreateBodies, MaxReqTasks + 1, MaxRequests)
    /\ UNCHANGED <<inflight, client>>

UpdateRequest == PutTask(RequestUpdateBodies, MaxRequests) /\ UNCHANGED <<inflight, client>>

DeleteRequest == DeleteById(MaxRequests) /\ UNCHANGED <<inflight, client>>

RequestNext ==
    \/ CreateRequest
    \/ UpdateRequest
    \/ DeleteRequest

RequestSpec == RequestInit /\ [][RequestNext]_vars

----------------------------------------------------------------------------
(* GET /api/stats against a stored document.  StatsSpec starts from the    *)
(* documents that hold n tasks created on earlier clock readings, the      *)
(* first c of them completed today after this morning's rollover, and      *)
(* serves the request, recording the response.                             *)

StatsDoc(n, c, t) ==
    [tasks     |-> [i \in 1..n |-> StoredTask(i, IF i <= c THEN t ELSE Null)],
     lastReset |-> DateOf(t),
     history   |-> <<>>]

StatsInit ==
    /\ now = MaxStatsTasks + 1
    /\ \E n \in 0..MaxStatsTasks : \E c \in 0..n : file = StatsDoc(n, c, now)
    /\ op = [name |-> "init", today |-> DateOf(now), again |-> FALSE,
             rd1 |-> FALSE, reset |-> FALSE, wr1 |-> "none", status |-> 0,
             stale |-> FALSE]
    /\ mem = NoDoc
    /\ created = Len(file.tasks)
    /\ req = NoReq
    /\ inflight = <<>>
    /\ client = NoClient

StatsRequest == StatsOf(MaxRequests) /\ UNCHANGED <<inflight, client>>

StatsNext == StatsRequest

StatsSpec == StatsInit /\ [][StatsNext]_vars

----------------------------------------------------------------------------
(* Requests in flight.  Express receives a request when the client sends   *)
(* it and Node's event loop calls its route handler later, one handler at  *)
(* a time and in any order the network delivers; the handler then runs to  *)
(* its response without yielding, for it awaits nothing.  ConcurrentSpec   *)
(* receives up to MaxArrivals requests, which wait in `inflight`, and      *)
(* serves the waiting ones one by one.  A request remembers in `seen` the  *)
(* document that was on disk when it was sent.                             *)

Request(kind, id, body) ==
    [kind |-> kind, id |-> id, body |-> body, seen |-> file, status |-> 0]

\* a client sends POST /api/tasks, or PUT or DELETE for a task it was shown
Arrive ==
    /\ Len(inflight) < MaxArrivals
    /\ \/ \E body \in CreateBodies :
             inflight' = Append(inflight, Request("create", "", body))
       \/ \E id \in IdsOf(file.tasks), body \in UpdateBodies :
             inflight' = Append(inflight, Request("update", id, body))
       \/ \E id \in IdsOf(file.tasks) :
             inflight' = Append(inflight, Request("delete", id, <<>>))
    /\ UNCHANGED <<file, now, op, mem, created, req, client>>

\* the request of the URL is the one the handler serves: req.params.id
ServesId(r) ==
    \/ req'.id = r.id
    \/ /\ req'.id = MissingId
       /\ r.id \notin IdsOf(readTasks(file, req'.rd = "ok", Today).tasks)

\* slip: a handler that yields between its load and its save works on the
\* document that was on disk when the request was sent
HandleFromArrival(r) ==
    LET data == r.seen
        i    == findIndex(data.tasks, r.id)
        data2 ==
            IF r.kind = "create"
            THEN [data EXCEPT !.tasks = Append(@, NewTask(r.body, now))]
            ELSE IF i = 0 THEN data
            ELSE IF r.kind = "update"
            THEN [data EXCEPT !.tasks[i] = ApplyUpdate(@, r.body, now)]
            ELSE [data EXCEPT !.tasks = Splice(@, i)]
        found == r.kind = "create" \/ i # 0
    IN  /\ file' = IF found THEN data2 ELSE file
        /\ mem' = NoDoc
        /\ created' = IF r.kind = "create" THEN created + 1 ELSE created
        /\ op' = OpRecord(r.kind, Today, r.kind = "create", FALSE, "none",
                          IF ~found THEN 404
                          ELSE IF r.kind = "create" THEN 201 ELSE 200,
                          StaleDoc(data, Today))
        /\ req' = Recorded(MaxArrivals,
                           IF r.kind = "create" THEN NewId(now) ELSE r.id,
                           r.body, "ok", IF found THEN "ok" ELSE "none")
        /\ UNCHANGED now

\* the route handler of the request, run from its load to its response
Handle(r) ==
    \/ r.kind = "create" /\ PostTask({r.body}, MaxCreates, MaxArrivals)
    \/ r.kind = "update" /\ PutTask({r.body}, MaxArrivals) /\ ServesId(r)
    \/ r.kind = "delete" /\ DeleteById(MaxArrivals) /\ ServesId(r)

\* the event loop calls the handler of one of the waiting requests
Serve ==
    \E k \in Indices(inflight) :
        /\ inflight[k].status = 0
        /\ Handle(inflight[k])
        /\ inflight' = [inflight EXCEPT ![k].status = op'.status]
        /\ UNCHANGED client

ConcurrentNext ==
    \/ Arrive
    \/ Serve
    \/ Tick

ConcurrentSpec == Init /\ [][ConcurrentNext]_vars

----------------------------------------------------------------------------
(* The client (client/src/App.js): the App component in one browser tab,   *)
(* its lastReset state and the interval timer of its mount effect.  The    *)
(* server answers its GET /api/tasks requests.  A request that fails on    *)
(* the way is caught by the client and changes nothing on the server.      *)

\* the page is opened, or opened again by a reload: the first render has the
\* state of useState("") (line 16), and the effect of lines 22-33, which has
\* no dependencies and runs after this render only, starts fetchTasks and
\* the timer; the timer's callback calls the checkDailyReset of this render
Mount ==
    /\ ~client.mounted
    /\ LET first == [NoClient EXCEPT !.mounted = TRUE, !.fetching = TRUE]
       IN  client' = [first EXCEPT !.captured = first.lastReset]
    /\ UNCHANGED <<file, now, op, mem, created, req, inflight>>

\* fetchTasks, lines 36-49: setLastReset(response.data.lastReset || ""); a
\* later render has the new state, the timer keeps the callback it was given
FetchTasks ==
    /\ client.mounted
    /\ client.fetching
    /\ \/ /\ GetTasks(MaxRequests)
          /\ client' = [client EXCEPT !.fetching = FALSE,
                                      !.lastReset = req'.body.lastReset]
       \/ /\ client' = [client EXCEPT !.fetching = FALSE]
          /\ UNCHANGED <<file, now, op, mem, created, req>>
    /\ UNCHANGED inflight

\* the lastReset that the checkDailyReset called by the timer reads: the
\* constant of the render whose closure the timer holds
ClosureLastReset(c) == c.captured

\* the timer fires (lines 27-29) and checkDailyReset (lines 62-74) gets an
\* answer; window.location.reload() discards the component
PeriodicCheck ==
    /\ client.mounted
    /\ GetTasks(MaxRequests)
    /\ LET currentLastReset == req'.body.lastReset
           lastReset        == ClosureLastReset(client)
       IN  client' = IF currentLastReset # lastReset /\ lastReset # EmptyString
                     THEN NoClient
                     ELSE client
    /\ UNCHANGED inflight

ClientNext ==
    \/ Mount
    \/ FetchTasks
    \/ PeriodicCheck
    \/ Tick

\* the handler read the document both times and saved the rollover, if any
AnsweredFromDisk == op'.rd1 /\ op'.wr1 # "failed" /\ req'.rd = "ok"

\* the browser loads the page it was asked for, a request is answered or
\* fails, and setInterval keeps firing every 60000 ms while the page is
\* open; the failures of the server's reads and writes do not last for ever
ClientFairness ==
    /\ WF_vars(Mount)
    /\ WF_vars(FetchTasks)
    /\ WF_vars(PeriodicCheck /\ AnsweredFromDisk)

ClientSpec == Init /\ [][ClientNext]_vars /\ ClientFairness

----------------------------------------------------------------------------
(* Vocabulary of the properties *)

\* the handlers that answer a request about tasks
TaskOps == {"list", "create", "update", "delete", "stats"}

\* the handlers that run checkDailyReset and change nothing else
CheckOps == {"startup", "list"}

\* a step taken by a handler: the clock stands still and op' describes it
HandlerStep == now' = now

\* the fields of a task that are not its completion state
Identity(t) ==
    [id |-> t.id, title |-> t.title, description |-> t.description,
     priority |-> t.priority, createdAt |-> t.createdAt]

IsCompleted(t) == t.completed

NoneCompleted(tasks) == \A i \in Indices(tasks) : ~tasks[i].completed

AllCleared(tasks) ==
    \A i \in Indices(tasks) : ~tasks[i].completed /\ tasks[i].completedAt = Null

IsPrefix(s, t) == Len(s) <= Len(t) /\ SubSeq(t, 1, Len(s)) = s

\* the handlers that change the task list
MutatingOps == {"create", "update", "delete"}

\* a title that is missing, empty or made of blanks only
Blank(s) == s = Undefined \/ \A k \in 1..Len(s) : s[k] = Space

\* a string with no blank at either end
Trimmed(s) == s = <<>> \/ (s[1] # Space /\ s[Len(s)] # Space)

NotSpace(c) == c # Space

\* a string of the request inputs (none has an inner blank) without its blanks
Stripped(s) == SelectSeq(s, NotSpace)

\* the position of the first task with the given id
FirstWithId(tasks, id) ==
    CHOOSE i \in Indices(tasks) :
        tasks[i].id = id /\ \A j \in 1..(i - 1) : tasks[j].id # id

\* the task shows the fields the body of an update carries
ShowsBody(t, body, at) ==
    /\ body.hasCompleted =>
          /\ t.completed = body.completed
          /\ t.completedAt = (IF body.completed THEN at ELSE Null)
    /\ body.title # Undefined => t.title = Stripped(body.title)
    /\ body.description # Undefined => t.description = Stripped(body.description)
    /\ body.priority # Absent => t.priority = body.priority

\* the task kept the fields the body of an update does not carry
KeepsRest(t, old, body) ==
    /\ t.id = old.id
    /\ t.createdAt = old.createdAt
    /\ ~body.hasCompleted =>
          t.completed = old.completed /\ t.completedAt = old.completedAt
    /\ body.title = Undefined => t.title = old.title
    /\ body.description = Undefined => t.description = old.description
    /\ body.priority = Absent => t.priority = old.priority

----------------------------------------------------------------------------
(* C1 *)

\* C1: no handler that reads or changes the task list (list, create, update,
\* delete, stats) works on a document whose lastReset is not today and that
\* still shows a task as completed on an earlier day.  Stated for the
\* requests in which no read or save of a rollover check failed, so that
\* only a handler that ran no check on the current date can break it.
C1_NoStaleDayState ==
    (/\ op.name \in TaskOps
     /\ op.name \in {"list", "create"} => op.rd1 /\ op.wr1 # "failed")
    => ~op.stale

----------------------------------------------------------------------------
(* C2 *)

\* C2: in the persisted document every task inside a history entry still has
\* completed = true and its completedAt timestamp.
C2_ArchivedTasksKeepCompletion ==
    \A k \in Indices(file.history) :
        \A i \in Indices(file.history[k].completedTasks) :
            /\ file.history[k].completedTasks[i].completed
            /\ file.history[k].completedTasks[i].completedAt # Null

----------------------------------------------------------------------------
(* C3 *)

\* C3: a rollover check that finds lastReset # today and a completed task
\* appends exactly one history entry, dated with the old lastReset and not
\* with today, with totalTasks the number of all tasks, completedCount the
\* number of completed tasks and completedTasks the completed tasks in task
\* order; the document it builds has every task cleared and lastReset =
\* today, and that document is the file when its save succeeds.
C3_RolloverArchivesClosedDay ==
    [][ (HandlerStep /\ op'.reset /\ ~NoneCompleted(file.tasks)) =>
          LET done == SelectSeq(file.tasks, IsCompleted)
              h    == mem'.history
              e    == h[Len(h)]
          IN  /\ Len(h) = Len(file.history) + 1
              /\ IsPrefix(file.history, h)
              /\ e.date = file.lastReset
              /\ e.date # DateOf(now)
              /\ e.totalTasks = Len(file.tasks)
              /\ e.completedCount = Len(done)
              /\ Len(e.completedTasks) = Len(done)
              /\ \A i \in Indices(done) :
                    Identity(e.completedTasks[i]) = Identity(done[i])
              /\ AllCleared(mem'.tasks)
              /\ mem'.lastReset = DateOf(now)
              /\ (op'.name \in CheckOps /\ op'.wr1 = "ok" => file' = mem')
      ]_vars

\* a saved rollover over a gap of two days that archived one task of two
C3_Witness ==
    /\ op.name = "startup" /\ op.reset /\ op.wr1 = "ok"
    /\ Len(file.history) = 1
    /\ file.history[1].date = 0
    /\ file.history[1].totalTasks = 2
    /\ file.history[1].completedCount = 1
    /\ file.lastReset = 2
    /\ Len(file.tasks) = 2

----------------------------------------------------------------------------
(* C4 *)

\* C4: over every step the persisted history keeps its entries: it never
\* gets shorter and the entries it had are unchanged.
C4_HistoryAppendOnly == [][IsPrefix(file.history, file'.history)]_vars

----------------------------------------------------------------------------
(* C5 *)

\* C5: the persisted history holds at most one entry per calendar date, in
\* ascending date order.
C5_HistoryDatesAscending ==
    \A i, j \in Indices(file.history) :
        i < j => file.history[i].date < file.history[j].date

\* two days closed, one entry each
C5_Witness ==
    /\ Len(file.history) = 2
    /\ file.history[1].date = 0
    /\ file.history[2].date = 1

----------------------------------------------------------------------------
(* C6 *)

----------------------------------------------------------------------------
(* C7 *)

\* C7: a rollover check made when lastReset is today (in the file, or in the
\* document readTasks falls back to when the read fails) performs no write
\* and signals no reset, and tasks, history and lastReset are as before.
C7_NoResetLeavesFileAlone ==
    [][ (HandlerStep /\ (file.lastReset = DateOf(now) \/ ~op'.rd1)) =>
          /\ ~op'.reset
          /\ op'.wr1 = "none"
          /\ (op'.name \in CheckOps => file' = file) ]_vars

\* a check on the day of lastReset, with a completed task a reset would clear
C7_Witness ==
    /\ op.name = "startup" /\ op.rd1 /\ ~op.reset /\ op.wr1 = "none"
    /\ file.lastReset = op.today
    /\ ~NoneCompleted(file.tasks)

----------------------------------------------------------------------------
(* C8 *)

\* C8: a rollover check that reads a document with lastReset # today and no
\* completed task performs a reset that advances lastReset to today and
\* appends no history entry; every history entry has completedCount >= 1.
C8_ZeroCompletedRollover ==
    [][ /\ (HandlerStep /\ op'.name \in CheckOps /\ op'.rd1
              /\ file.lastReset # DateOf(now) /\ NoneCompleted(file.tasks))
           => /\ op'.reset
              /\ mem'.lastReset = DateOf(now)
              /\ mem'.history = file.history
              /\ (op'.wr1 = "ok" => file' = mem')
        /\ \A k \in Indices(file'.history) : file'.history[k].completedCount >= 1
        /\ \A k \in Indices(mem'.history) : mem'.history[k].completedCount >= 1
      ]_vars

\* a saved rollover of a list of uncompleted tasks: no entry written
C8_Witness ==
    /\ op.name = "startup" /\ op.reset /\ op.wr1 = "ok"
    /\ file.history = <<>>
    /\ Len(file.tasks) > 0
    /\ file.lastReset = op.today

----------------------------------------------------------------------------
(* C9 *)

\* C9: no two tasks of the persisted task list have the same id.
C9_TaskIdsUnique ==
    \A i, j \in Indices(file.tasks) :
        i # j => file.tasks[i].id # file.tasks[j].id

----------------------------------------------------------------------------
(* C10 *)

\* C10: the document a rollover builds has the tasks of the document it
\* read, in the same order, each with its id, title, description, priority
\* and createdAt; so has the file when the save succeeds.
C10_RolloverKeepsTasks ==
    [][ (HandlerStep /\ op'.reset) =>
          /\ Len(mem'.tasks) = Len(file.tasks)
          /\ \A i \in Indices(file.tasks) :
                Identity(mem'.tasks[i]) = Identity(file.tasks[i])
          /\ (op'.name \in CheckOps /\ op'.wr1 = "ok" =>
                /\ Len(file'.tasks) = Len(file.tasks)
                /\ \A i \in Indices(file.tasks) :
                      Identity(file'.tasks[i]) = Identity(file.tasks[i]))
      ]_vars

\* a saved rollover of two tasks with different ids, one of them completed
C10_Witness ==
    /\ op.reset /\ op.wr1 = "ok" /\ op.name = "list"
    /\ Len(file.tasks) = 2
    /\ file.tasks[1].id # file.tasks[2].id
    /\ Len(file.history) = 1

----------------------------------------------------------------------------
(* C11 *)

\* C11: a handler whose rollover save failed does not signal "reset
\* performed" and does not answer its request as a success (200 or 201).
C11_SaveFailureReported ==
    op.wr1 = "failed" => (~op.reset /\ op.status \notin {200, 201})

----------------------------------------------------------------------------
(* C13 *)

\* C13: on every step on which a rollover is performed, each completed task
\* of the document it archives under the date lastReset was completed while
\* the date was lastReset.
C13_ArchivedOnTheirDay ==
    [][ (HandlerStep /\ op'.reset) =>
          \A i \in Indices(file.tasks) :
              file.tasks[i].completed =>
                  DateOf(file.tasks[i].completedAt) = file.lastReset ]_vars

----------------------------------------------------------------------------
(* C15 *)

\* C15: in the persisted document every task, in the task list and inside
\* the history entries, has a completedAt timestamp exactly when its
\* completed flag is true.
C15_CompletedAtIffCompleted ==
    /\ \A i \in Indices(file.tasks) :
          (file.tasks[i].completedAt # Null) <=> file.tasks[i].completed
    /\ \A k \in Indices(file.history) :
          \A i \in Indices(file.history[k].completedTasks) :
              (file.history[k].completedTasks[i].completedAt # Null)
                  <=> file.history[k].completedTasks[i].completed

\* after a rollover that archived a task: one task completed again since,
\* stamped with the time of its update, and one left cleared
C15_Witness ==
    /\ Len(file.history) = 1
    /\ Len(file.tasks) = 2
    /\ file.tasks[1].completed /\ file.tasks[1].completedAt > file.tasks[1].createdAt
    /\ ~file.tasks[2].completed /\ file.tasks[2].completedAt = Null
    /\ op.name = "update" /\ op.status = 200

----------------------------------------------------------------------------
(* C20 *)

\* C20: whatever the file holds, a readTasks that fails returns the document
\* with no task, no history entry and lastReset = today, and a rollover check
\* whose read failed performs no reset, writes nothing, leaves the file as it
\* is, and its caller runs on: GET /api/tasks answers 200.
C20_LoadFallsBackToFresh ==
    /\ LET d == readTasks(file, FALSE, Today)
       IN  /\ d.tasks = <<>>
           /\ d.history = <<>>
           /\ d.lastReset = Today
    /\ LET r == CheckResult(file, Today, FALSE, TRUE)
       IN  ~r.reset /\ r.write = "none" /\ r.file = file
    /\ (op.name \in CheckOps /\ ~op.rd1) =>
           /\ ~op.reset
           /\ op.wr1 = "none"
           /\ mem = NoDoc
           /\ (op.name = "list" => op.status = 200)

\* GET /api/tasks whose read failed while a rollover of a completed task was
\* due: the file still holds the task and yesterday's lastReset
C20_Witness ==
    /\ op.name = "list" /\ ~op.rd1
    /\ file.lastReset # op.today
    /\ ~NoneCompleted(file.tasks)

----------------------------------------------------------------------------
(* C12 *)

\* C12: a create, update or delete whose own save failed answers 500 and
\* leaves the file without the change (the file as it was, or as the rollover
\* of the same request saved it); one that answers 200 or 201 saved, and the
\* file shows the change: the new task last in the list, the updated fields
\* on the task, one task fewer.
C12_AnswerTellsWhatWasSaved ==
    [][ (HandlerStep /\ op'.name \in MutatingOps /\ op'.status \notin {400, 404}) =>
          /\ req'.wr = "failed" <=> op'.status = 500
          /\ req'.wr = "ok" <=> op'.status \in {200, 201}
          /\ req'.wr = "failed" =>
                \/ file' = file
                \/ op'.name = "create" /\ op'.wr1 = "ok" /\ file' = mem'
          /\ (req'.wr = "ok" /\ op'.name = "create") =>
                /\ op'.status = 201
                /\ Len(file'.tasks) >= 1
                /\ LET t == file'.tasks[Len(file'.tasks)]
                   IN  /\ t.id = req'.id
                       /\ t.title = Stripped(req'.body.title)
                       /\ t.createdAt = now
          /\ (req'.wr = "ok" /\ op'.name = "update") =>
                /\ Len(file'.tasks) = Len(file.tasks)
                /\ ShowsBody(file'.tasks[FirstWithId(file.tasks, req'.id)],
                             req'.body, now)
          /\ (req'.wr = "ok" /\ op'.name = "delete") =>
                Len(file'.tasks) = Len(file.tasks) - 1
      ]_vars

\* a create whose rollover was saved and whose own save failed: 500, and the
\* file holds the rolled-over tasks without the new one
C12_Witness ==
    /\ op.name = "create" /\ op.status = 500 /\ req.wr = "failed"
    /\ op.reset /\ op.wr1 = "ok"
    /\ file.lastReset = op.today
    /\ Len(file.tasks) = MaxReqTasks

----------------------------------------------------------------------------
(* C14 *)

----------------------------------------------------------------------------
(* C16 *)

\* C16: every task of the persisted document has a title that is not empty
\* and has no blank at either end.
C16_TitlesNonEmptyTrimmed ==
    \A i \in Indices(file.tasks) :
        file.tasks[i].title # <<>> /\ Trimmed(file.tasks[i].title)

----------------------------------------------------------------------------
(* C17 *)

\* C17: an update answered 200 changes one task, the first with the id of the
\* request: it shows the fields the body carries, keeps every field the body
\* does not carry, keeps its id and createdAt; every other task, lastReset
\* and history are as before.
C17_UpdateAppliesPresentFields ==
    [][ (HandlerStep /\ op'.name = "update" /\ op'.status = 200) =>
          /\ req'.id \in IdsOf(file.tasks)
          /\ Len(file'.tasks) = Len(file.tasks)
          /\ LET i == FirstWithId(file.tasks, req'.id)
             IN  /\ ShowsBody(file'.tasks[i], req'.body, now)
                 /\ KeepsRest(file'.tasks[i], file.tasks[i], req'.body)
                 /\ \A j \in Indices(file.tasks) :
                       j # i => file'.tasks[j] = file.tasks[j]
          /\ file'.lastReset = file.lastReset
          /\ file'.history = file.history
      ]_vars

\* an update of the priority alone on the second of two tasks, which keeps
\* its completion, title and description
C17_Witness ==
    /\ op.name = "update" /\ op.status = 200
    /\ req.body.priority = "high" /\ req.body.title = Undefined
    /\ ~req.body.hasCompleted
    /\ Len(file.tasks) = 2
    /\ file.tasks[2].id = req.id /\ file.tasks[1].id # req.id
    /\ file.tasks[2].priority = "high"
    /\ file.tasks[2].completed /\ file.tasks[2].title = <<"a">>
    /\ file.tasks[1].priority = "medium"

----------------------------------------------------------------------------
(* C18 *)

\* C18: a create whose title is missing, empty or blank answers 400, runs no
\* rollover check, writes nothing and leaves the file as it was.
C18_BlankTitleRejectedUnwritten ==
    [][ (HandlerStep /\ op'.name = "create" /\ Blank(req'.body.title)) =>
          /\ op'.status = 400
          /\ ~op'.reset
          /\ op'.wr1 = "none"
          /\ req'.wr = "none"
          /\ mem' = NoDoc
          /\ file' = file
      ]_vars

\* a blank title sent while a rollover of a completed task is due: the file
\* still has yesterday's lastReset and the completion
C18_Witness ==
    /\ op.name = "create" /\ op.status = 400
    /\ req.body.title = <<Space>>
    /\ file.lastReset # op.today
    /\ ~NoneCompleted(file.tasks)

----------------------------------------------------------------------------
(* C19 *)

\* C19: an update or delete whose id no task of the file has answers 404,
\* writes nothing and leaves the file as it was.
C19_UnknownIdNotFound ==
    [][ (HandlerStep /\ op'.name \in {"update", "delete"}
           /\ req'.id \notin IdsOf(file.tasks)) =>
          /\ op'.status = 404
          /\ req'.wr = "none"
          /\ file' = file
      ]_vars

\* an unknown id sent to a list of tasks
C19_Witness ==
    /\ op.name = "delete" /\ op.status = 404
    /\ req.id = MissingId
    /\ Len(file.tasks) = MaxReqTasks
    /\ req.id \notin IdsOf(file.tasks)

----------------------------------------------------------------------------
(* C21 *)

\* n / d rounded to the nearest integer, a tie going up, on exact numbers
RoundedQuotient(n, d) == (2 * n + d) \div (2 * d)

\* C21: GET /api/stats on a document it could read leaves the file as it was
\* and answers totalTasks = the number of tasks, completedTasks = the number
\* of completed tasks, pendingTasks = their difference, and completionRate =
\* 100 * completedTasks / totalTasks rounded to the nearest integer (0 for
\* an empty list), an integer in 0..100.
C21_StatsDerivation ==
    [][ (HandlerStep /\ op'.name = "stats" /\ req'.rd = "ok") =>
          LET total == Len(file.tasks)
              done  == Cardinality({i \in Indices(file.tasks) : file.tasks[i].completed})
              s     == req'.body
          IN  /\ file' = file
              /\ s.totalTasks = total
              /\ s.completedTasks = done
              /\ s.pendingTasks = total - done
              /\ s.completionRate =
                    (IF total > 0 THEN RoundedQuotient(100 * done, total) ELSE 0)
              /\ s.completionRate \in 0..100
      ]_vars

----------------------------------------------------------------------------
(* C23 *)

\* C23: an update or delete, whatever its outcome, leaves the persisted
\* history and lastReset as they were; and on every step that changes the
\* persisted lastReset or history a rollover was performed and saved, and
\* lastReset and history are those of the document the rollover built.
C23_OnlyRolloverMovesLastReset ==
    [][ HandlerStep =>
          /\ op'.name \in {"update", "delete"} =>
                /\ file'.history = file.history
                /\ file'.lastReset = file.lastReset
          /\ (file'.lastReset # file.lastReset \/ file'.history # file.history) =>
                /\ op'.reset /\ op'.wr1 = "ok"
                /\ file'.lastReset = mem'.lastReset
                /\ file'.history = mem'.history
      ]_vars

----------------------------------------------------------------------------
(* C22 *)

\* a step that serves one of the waiting requests
ServeStep == Len(inflight') = Len(inflight) /\ inflight' # inflight

\* the request served by the step
Served ==
    inflight[CHOOSE k \in Indices(inflight) : inflight'[k] # inflight[k]]

\* the document on disk when the handler of the step makes its own load:
\* after the rollover its check saved, if it saved one
Loaded == IF op'.reset /\ op'.wr1 = "ok" THEN mem' ELSE file

\* C22, as stated: requests never interleave, so that no acknowledged create,
\* update or delete is lost by another request's full-document overwrite:
\* every task on disk is still there, where it was, after a create or an
\* update is served.  A POST whose load failed saves a fresh document that
\* holds its new task only, and the tasks created before are lost.
C22_NoAcknowledgedChangeLost ==
    [][ (ServeStep /\ Served.kind \in {"create", "update"}) =>
          \A i \in Indices(file.tasks) :
              /\ i <= Len(file'.tasks)
              /\ Identity(file'.tasks[i]) = Identity(file.tasks[i]) ]_vars

\* C22, the premise: the handler of a request runs from its load to its save
\* with no other handler in between, so what it saves is computed from the
\* document on disk at that moment and never from the document the request
\* was sent against: an acknowledged create appends its task to the tasks
\* loaded (to none when its load failed and fell back to a fresh document),
\* an acknowledged update changes the task with its id and an acknowledged
\* delete removes it, every other task, lastReset and the history staying
\* as loaded; a request that is not acknowledged leaves the document as
\* its rollover check left it.
C22_SavedFromCurrentDocument ==
    [][ ServeStep =>
          LET r  == Served
              ok == op'.status \in {200, 201}
              n  == Len(Loaded.tasks)
          IN  /\ (r.kind = "create" /\ ok /\ req'.rd = "ok") =>
                    /\ Len(file'.tasks) = n + 1
                    /\ file' = [Loaded EXCEPT !.tasks = Append(@, file'.tasks[n + 1])]
                    /\ file'.tasks[n + 1].id = req'.id
              /\ (r.kind = "create" /\ ok /\ req'.rd = "failed") =>
                    /\ Len(file'.tasks) = 1
                    /\ file' = [InitialData(Today) EXCEPT !.tasks = file'.tasks]
                    /\ file'.tasks[1].id = req'.id
              /\ (r.kind = "update" /\ ok) =>
                    /\ r.id \in IdsOf(file.tasks)
                    /\ LET i == FirstWithId(file.tasks, r.id)
                       IN  /\ Len(file'.tasks) = Len(file.tasks)
                           /\ file' = [file EXCEPT !.tasks[i] = file'.tasks[i]]
                           /\ ShowsBody(file'.tasks[i], r.body, now)
                           /\ KeepsRest(file'.tasks[i], file.tasks[i], r.body)
              /\ (r.kind = "delete" /\ ok) =>
                    /\ r.id \in IdsOf(file.tasks)
                    /\ LET i == FirstWithId(file.tasks, r.id)
                       IN  file' = [file EXCEPT !.tasks =
                                      SubSeq(@, 1, i - 1) \o SubSeq(@, i + 1, Len(@))]
              /\ ~ok => file' = Loaded ]_vars

\* two POSTs were sent against the same empty document, both were
\* acknowledged, and both tasks are on disk
C22_Witness ==
    /\ Len(inflight) = 2
    /\ \A k \in {1, 2} :
          /\ inflight[k].kind = "create"
          /\ inflight[k].seen.tasks = <<>>
          /\ inflight[k].status = 201
    /\ Len(file.tasks) = 2
    /\ req.rd = "ok"

----------------------------------------------------------------------------
(* C24 *)

\* the document on disk has another lastReset than the one the open page
\* loaded
Behind ==
    /\ client.mounted
    /\ client.lastReset # EmptyString
    /\ file.lastReset # client.lastReset

\* C24: the client's once-a-minute check reloads the page when the server's
\* lastReset differs from the one the client loaded: a page that is behind
\* the document on disk is eventually reloaded by a periodic check (unless
\* the document comes to show the lastReset the page loaded).
\* The timer calls the checkDailyReset of the first render, whose lastReset
\* is "" for ever, so the test of line 68 never passes.
C24_RolloverLeadsToReload ==
    Behind ~> (~client.mounted \/ file.lastReset = client.lastReset)

====
